---- MODULE Spec2Model ----
(***************************************************************************)
(* serde-validate: the attribute macro validate_deser (macro expansion, a  *)
(* pure function from a parsed declaration to emitted items) and the       *)
(* deserialize function it emits (decode the helper, rebuild the real      *)
(* value, run Validate::validated, map the error).                         *)
(*                                                                         *)
(* Emitted tokens are modelled as syntax trees, not as text: an item is a  *)
(* record, an expression is a record, a where clause is a sequence of      *)
(* predicates.  Generated code is executed by Eval (Rust's evaluation of   *)
(* the emitted expression) and HelperDeserialize (serde's derived decoder  *)
(* for the emitted helper item).                                           *)
(***************************************************************************)
EXTENDS Integers, Sequences, FiniteSets, TLC

VARIABLES decl, rule, gen, inv, scope

vars == <<decl, rule, gen, inv, scope>>

(***************************************************************************)
(* Bounds of the explored input space.                                     *)
(***************************************************************************)
MaxFields == 2      \* fields of a struct
MaxVariants == 2    \* variants of an enum
MaxParams == 2      \* generic parameters of a declaration
MaxPreds == 2       \* predicates of a where clause
MaxVal == 1         \* decodable wire values are 0..MaxVal
NInv == 2           \* concurrent invocations of deserialize

None == "None"      \* Option::None of an identifier, and "no variant"

SeqUpTo(S, n) == UNION {[1..k -> S] : k \in 0..n}

DistinctIdents(s) == \A i, j \in DOMAIN s : s[i].ident = s[j].ident => i = j

Range(s) == {s[i] : i \in DOMAIN s}

(***************************************************************************)
(* syn's view of the input: DeriveInput { ident, generics, data }.         *)
(***************************************************************************)
IdentPool == <<"b", "a", "c", "d">>
FieldIdents == {IdentPool[i] : i \in 1..MaxFields}

VariantPool == <<"Str", "Int", "Null", "Some">>
VariantIdents == {VariantPool[i] : i \in 1..MaxVariants}

Types == {"i32", "T", "U", "&'a str"}

NamedLists ==
    {l \in SeqUpTo([ident : FieldIdents, ty : Types], MaxFields) : DistinctIdents(l)}

UnnamedLists == SeqUpTo([ident : {None}, ty : Types], MaxFields)

UnitFields == [kind |-> "Unit", list |-> <<>>]

StructFields ==
    {[kind |-> "Named", list |-> l] : l \in NamedLists}
        \cup {[kind |-> "Unnamed", list |-> l] : l \in UnnamedLists}
        \cup {UnitFields}

\* Payloads of enum variants: unit, one named field, one or two positional.
VariantFields ==
    { UnitFields,
      [kind |-> "Named", list |-> <<[ident |-> "a", ty |-> "i32"]>>],
      [kind |-> "Unnamed", list |-> <<[ident |-> None, ty |-> "i32"]>>],
      [kind |-> "Unnamed", list |-> <<[ident |-> None, ty |-> "T"]>>],
      [kind |-> "Unnamed",
       list |-> <<[ident |-> None, ty |-> "i32"], [ident |-> None, ty |-> "T"]>>] }

VariantLists ==
    {l \in SeqUpTo([ident : VariantIdents, fields : VariantFields], MaxVariants) :
        DistinctIdents(l)}

Datas ==
    {[kind |-> "Struct", fields |-> f, variants |-> <<>>] : f \in StructFields}
        \cup {[kind |-> "Enum", fields |-> UnitFields, variants |-> v] : v \in VariantLists}
        \cup {[kind |-> "Union",
               fields |-> [kind |-> "Named", list |-> <<[ident |-> "a", ty |-> "i32"]>>],
               variants |-> <<>>]}

\* Generic parameters: T carries an inline bound, U does not.
ParamPool ==
    { [kind |-> "Lifetime", ident |-> "'a", bounds |-> <<>>],
      [kind |-> "Type", ident |-> "T", bounds |-> <<"Validate">>],
      [kind |-> "Type", ident |-> "U", bounds |-> <<>>],
      [kind |-> "Const", ident |-> "N", bounds |-> <<>>] }

\* Rust wants lifetime parameters declared before type and const parameters.
LifetimesFirst(s) ==
    \A i, j \in DOMAIN s : (i < j /\ s[j].kind = "Lifetime") => s[i].kind = "Lifetime"

ParamLists ==
    {l \in SeqUpTo(ParamPool, MaxParams) : DistinctIdents(l) /\ LifetimesFirst(l)}

PredPool ==
    { [lhs |-> "T", bound |-> "Validate"],
      [lhs |-> "T::Error", bound |-> "Display"] }

NoWhere == [some |-> FALSE, predicates |-> <<>>]

\* A where clause may repeat a predicate: `where T: Validate, T: Validate`.
WhereClauses ==
    {NoWhere} \cup {[some |-> TRUE, predicates |-> p] : p \in SeqUpTo(PredPool, MaxPreds)}

AllGenerics == [params : ParamLists, where_clause : WhereClauses]

NoGenerics == [params |-> <<>>, where_clause |-> NoWhere]

\* The generics of the generic tests: <T: Validate> where T::Error: Display.
TestGenerics ==
    [params |-> <<[kind |-> "Type", ident |-> "T", bounds |-> <<"Validate">>]>>,
     where_clause |->
        [some |-> TRUE, predicates |-> <<[lhs |-> "T::Error", bound |-> "Display"]>>]]

TypeNames == {"Foo"}


FieldTypes(data) ==
    {data.fields.list[i].ty : i \in DOMAIN data.fields.list}
        \cup UNION {{data.variants[v].fields.list[i].ty :
                        i \in DOMAIN data.variants[v].fields.list} :
                    v \in DOMAIN data.variants}

TypeParams(generics) ==
    {generics.params[i].ident :
        i \in {j \in DOMAIN generics.params : generics.params[j].kind = "Type"}}

LifetimeParams(generics) ==
    {generics.params[i].ident :
        i \in {j \in DOMAIN generics.params : generics.params[j].kind = "Lifetime"}}

\* The types a declaration's parameters bring into scope, beside i32.
InScope(generics) ==
    {"i32"} \cup TypeParams(generics)
            \cup (IF "'a" \in LifetimeParams(generics) THEN {"&'a str"} ELSE {})

\* rustc accepts the declaration: every field type is in scope, every type
\* and lifetime parameter is used by a field, and T is in scope wherever a
\* where predicate constrains it (both predicates of PredPool do).
Compiles(d) ==
    /\ FieldTypes(d.data) \subseteq InScope(d.generics)
    /\ InScope(d.generics) \ {"i32"} \subseteq FieldTypes(d.data)
    /\ d.generics.where_clause.predicates # <<>> => "T" \in TypeParams(d.generics)

\* The declarations the macro is handed.
AllDecls ==
    {d \in [ident : TypeNames, generics : AllGenerics, data : Datas] : Compiles(d)}

\* Declarations whose expansion is compiled and run.
RunDecls ==
    {d \in [ident : TypeNames, generics : {NoGenerics, TestGenerics}, data : Datas] :
        Compiles(d)}

(***************************************************************************)
(* Emitted syntax trees.                                                   *)
(***************************************************************************)
NoItem ==
    [kw |-> "", name |-> "", generic_params |-> <<>>, where_clause |-> NoWhere,
     fields |-> UnitFields, variants |-> <<>>]

NoExpr == [form |-> "", path |-> <<>>, inits |-> <<>>, arms |-> <<>>]

NoImpl ==
    [generic_params |-> <<>>, for_name |-> "", simple_gen_params |-> <<>>,
     where_clause |-> <<>>]

DeLifetime == [kind |-> "Lifetime", ident |-> "'__de", bounds |-> <<>>]

\* format!("__ValidDeserialize{name}")
HelperName(name) == "__ValidDeserialize" \o name

\* quote! { #p : serde::Deserialize<'__de> }
DeserializeBound(p) == [lhs |-> p.ident, bound |-> "serde::Deserialize<'__de>"]

\* Mutation of named_def_full: the where clause is left off the helper.
named_def_full_no_where(name, generics, fields) ==
    [kw |-> "struct", name |-> name, generic_params |-> generics.params,
     where_clause |-> NoWhere,
     fields |-> [kind |-> "Named", list |-> fields], variants |-> <<>>]

named_def_full(name, generics, fields) ==
    [kw |-> "struct", name |-> name, generic_params |-> generics.params,
     where_clause |-> generics.where_clause,
     fields |-> [kind |-> "Named", list |-> fields], variants |-> <<>>]

\* Mutation of init_from_named: every member is read from the first field.
init_from_named_first(name, fields) ==
    [form |-> "Struct", path |-> <<name>>,
     inits |-> [i \in 1..Len(fields) |->
                    [member |-> fields[i].ident, from |-> fields[1].ident]],
     arms |-> <<>>]

init_from_named(name, fields) ==
    [form |-> "Struct", path |-> <<name>>,
     inits |-> [i \in 1..Len(fields) |->
                    [member |-> fields[i].ident, from |-> fields[i].ident]],
     arms |-> <<>>]

build_named_struct(name, helper_name, generics, fields) ==
    [helper_def |-> named_def_full(helper_name, generics, fields),
     init_from_helper |-> init_from_named(name, fields)]

unnamed_def_full(name, generics, fields) ==
    [kw |-> "struct", name |-> name, generic_params |-> generics.params,
     where_clause |-> generics.where_clause,
     fields |-> [kind |-> "Unnamed", list |-> fields], variants |-> <<>>]

\* Index::from(i): the member token of position i, `0`, `1`, ...
Index(i) == ToString(i)

\* Mutation of init_from_unnamed: the indices are emitted in reverse.
init_from_unnamed_reversed(name, fields) ==
    [form |-> "Call", path |-> <<name>>,
     inits |-> [k \in 1..Len(fields) |-> [from |-> Index(Len(fields) - k)]],
     arms |-> <<>>]

\* fields.iter().enumerate(): the k-th binding (k from 1) carries index k - 1.
init_from_unnamed(name, fields) ==
    [form |-> "Call", path |-> <<name>>,
     inits |-> [k \in 1..Len(fields) |-> [from |-> Index(k - 1)]],
     arms |-> <<>>]

build_unnamed_struct(name, helper_name, generics, fields) ==
    [helper_def |-> unnamed_def_full(helper_name, generics, fields),
     init_from_helper |-> init_from_unnamed(name, fields)]

\* `struct #helper_name;` : the generics are not passed in.
build_unit_struct(name, helper_name) ==
    [helper_def |->
        [kw |-> "struct", name |-> helper_name, generic_params |-> <<>>,
         where_clause |-> NoWhere, fields |-> UnitFields, variants |-> <<>>],
     init_from_helper |->
        [form |-> "Path", path |-> <<name>>, inits |-> <<>>, arms |-> <<>>]]

named_def(name, fields) ==
    [ident |-> name, fields |-> [kind |-> "Named", list |-> fields]]

unnamed_def(name, fields) ==
    [ident |-> name, fields |-> [kind |-> "Unnamed", list |-> fields]]

\* Mutation of enum_def: every variant is emitted as a unit variant.
enum_def_units(name, generics, variants) ==
    [kw |-> "enum", name |-> name, generic_params |-> generics.params,
     where_clause |-> generics.where_clause, fields |-> UnitFields,
     variants |->
        [i \in 1..Len(variants) |->
            [ident |-> variants[i].ident, fields |-> UnitFields]]]

enum_def(name, generics, variants) ==
    [kw |-> "enum", name |-> name, generic_params |-> generics.params,
     where_clause |-> generics.where_clause, fields |-> UnitFields,
     variants |->
        [i \in 1..Len(variants) |->
            CASE variants[i].fields.kind = "Named" ->
                    named_def(variants[i].ident, variants[i].fields.list)
              [] variants[i].fields.kind = "Unnamed" ->
                    unnamed_def(variants[i].ident, variants[i].fields.list)
              [] OTHER -> [ident |-> variants[i].ident, fields |-> UnitFields]]]

init_enum_from_named(name, helper_name, variant_name, fields) ==
    LET binds == [i \in 1..Len(fields) |-> fields[i].ident]
    IN  [pat |-> [path |-> <<helper_name, variant_name>>, kind |-> "Named",
                  binds |-> binds],
         body |-> [path |-> <<name, variant_name>>, kind |-> "Named", binds |-> binds]]

\* format!("value_{}", i) for i in 0..n
init_enum_from_unnamed(name, helper_name, variant_name, fields) ==
    LET binds == [k \in 1..Len(fields) |-> "value_" \o ToString(k - 1)]
    IN  [pat |-> [path |-> <<helper_name, variant_name>>, kind |-> "Unnamed",
                  binds |-> binds],
         body |-> [path |-> <<name, variant_name>>, kind |-> "Unnamed",
                   binds |-> binds]]

init_enum_from_unit(name, helper_name, variant_name) ==
    [pat |-> [path |-> <<helper_name, variant_name>>, kind |-> "Unit", binds |-> <<>>],
     body |-> [path |-> <<name, variant_name>>, kind |-> "Unit", binds |-> <<>>]]

\* Mutation of init_from_enum: the arm of the last variant is left out.
init_from_enum_short(name, helper_name, variants) ==
    [form |-> "Match", path |-> <<>>, inits |-> <<>>,
     arms |->
        [i \in 1..(Len(variants) - 1) |->
            CASE variants[i].fields.kind = "Named" ->
                    init_enum_from_named(name, helper_name, variants[i].ident,
                                         variants[i].fields.list)
              [] variants[i].fields.kind = "Unnamed" ->
                    init_enum_from_unnamed(name, helper_name, variants[i].ident,
                                           variants[i].fields.list)
              [] OTHER -> init_enum_from_unit(name, helper_name, variants[i].ident)]]

init_from_enum(name, helper_name, variants) ==
    [form |-> "Match", path |-> <<>>, inits |-> <<>>,
     arms |->
        [i \in 1..Len(variants) |->
            CASE variants[i].fields.kind = "Named" ->
                    init_enum_from_named(name, helper_name, variants[i].ident,
                                         variants[i].fields.list)
              [] variants[i].fields.kind = "Unnamed" ->
                    init_enum_from_unnamed(name, helper_name, variants[i].ident,
                                           variants[i].fields.list)
              [] OTHER -> init_enum_from_unit(name, helper_name, variants[i].ident)]]

build_enum(name, helper_name, generics, variants) ==
    [helper_def |-> enum_def(helper_name, generics, variants),
     init_from_helper |-> init_from_enum(name, helper_name, variants)]

\* The match on input.data; Data::Union panics before anything is built.
HelperData(input) ==
    LET name == input.ident
        helper_name == HelperName(name)
    IN  CASE input.data.kind = "Struct" /\ input.data.fields.kind = "Named" ->
                build_named_struct(name, helper_name, input.generics,
                                   input.data.fields.list)
          [] input.data.kind = "Struct" /\ input.data.fields.kind = "Unnamed" ->
                build_unnamed_struct(name, helper_name, input.generics,
                                     input.data.fields.list)
          [] input.data.kind = "Struct" /\ input.data.fields.kind = "Unit" ->
                build_unit_struct(name, helper_name)
          [] OTHER ->
                build_enum(name, helper_name, input.generics, input.data.variants)

IsTypeParam(p) == p.kind = "Type"

\* generics.params.iter().filter_map(..): one predicate per GenericParam::Type
extra_where_clause(generics) ==
    LET types == SelectSeq(generics.params, IsTypeParam)
    IN  [i \in 1..Len(types) |-> DeserializeBound(types[i])]

\* Mutation of where_clause: the original predicates are left out.
where_clause_extra_only(generics) == extra_where_clause(generics)

\* where #(#predicates,)* #(#extra_where_clause,)*
where_clause(generics) ==
    IF generics.where_clause.some
    THEN generics.where_clause.predicates \o extra_where_clause(generics)
    ELSE extra_where_clause(generics)

\* Type(p) => p.ident, Lifetime(p) => p.lifetime, Const(p) => p.ident
simple_gen_params(generics) ==
    [i \in 1..Len(generics.params) |-> generics.params[i].ident]

\* unimplemented!() panics with this fixed message (words of the message).
UnimplementedMessage == <<"not", "implemented">>

Pending ==
    [status |-> "pending", message |-> <<>>, helper_def |-> NoItem,
     init_from_helper |-> NoExpr, impl |-> NoImpl]

Expansion(input) ==
    IF input.data.kind = "Union"
    THEN [status |-> "panicked", message |-> UnimplementedMessage,
          helper_def |-> NoItem, init_from_helper |-> NoExpr, impl |-> NoImpl]
    ELSE LET h == HelperData(input)
         IN  [status |-> "expanded", message |-> <<>>,
              helper_def |-> h.helper_def,
              init_from_helper |-> h.init_from_helper,
              impl |-> [generic_params |-> <<DeLifetime>> \o input.generics.params,
                        for_name |-> input.ident,
                        simple_gen_params |-> simple_gen_params(input.generics),
                        where_clause |-> where_clause(input.generics)]]

(***************************************************************************)
(* Run time: values, the decode capability, the generated conversion and   *)
(* the validation capability.                                              *)
(***************************************************************************)
Val == 0..MaxVal

\* What a wire document can hold in a field position; -1 decodes as no type.
WireVals == (-1)..MaxVal

NoDoc == [variant |-> "", fields |-> <<>>]

NoValue == [ty |-> "", variant |-> "", fields |-> <<>>]

NoErr == [msg |-> ""]

NoValidateErr == [code |-> -1]

Ok(v) == [tag |-> "Ok", value |-> v, err |-> NoErr]

Err(e) == [tag |-> "Err", value |-> NoValue, err |-> e]

\* Member of the i-th field of a field list: its identifier, or its position.
KeyAt(fields, i) ==
    IF fields.kind = "Named" THEN fields.list[i].ident ELSE Index(i - 1)

\* Members of a value of a field list.
Keys(fields) == {KeyAt(fields, i) : i \in DOMAIN fields.list}

\* serde's derived decoder for one field list.
DeserializeFields(ty, variant, fields, doc) ==
    IF DOMAIN doc.fields # Keys(fields)
    THEN Err([msg |-> "invalid length"])
    ELSE LET bad == {i \in DOMAIN fields.list : doc.fields[KeyAt(fields, i)] \notin Val}
         IN  IF bad # {}
             THEN LET first == CHOOSE i \in bad : \A j \in bad : i <= j
                  IN  Err([msg |-> "invalid type, expected " \o fields.list[first].ty])
             ELSE Ok([ty |-> ty, variant |-> variant, fields |-> doc.fields])

\* #[derive(serde::Deserialize)] on the emitted helper item, applied to a document.
HelperDeserialize(helper_def, doc) ==
    IF helper_def.kw = "struct"
    THEN DeserializeFields(helper_def.name, None, helper_def.fields, doc)
    ELSE LET hit == {i \in DOMAIN helper_def.variants :
                        helper_def.variants[i].ident = doc.variant}
         IN  IF hit = {}
             THEN Err([msg |-> "unknown variant"])
             ELSE LET v == helper_def.variants[CHOOSE i \in hit : TRUE]
                  IN  DeserializeFields(helper_def.name, v.ident, v.fields, doc)

\* Documents offered to a field list: every assignment of wire values to its
\* members, and the same with the last member missing.
DocsFor(variant, fields) ==
    LET n == Len(fields.list)
        short == IF n = 0 THEN {} ELSE {Keys(fields) \ {KeyAt(fields, n)}}
    IN  {[variant |-> variant, fields |-> f] :
            f \in UNION {[K -> WireVals] : K \in {Keys(fields)} \cup short}}

Docs(helper_def) ==
    IF helper_def.kw = "struct"
    THEN DocsFor(None, helper_def.fields)
    ELSE UNION {DocsFor(helper_def.variants[i].ident, helper_def.variants[i].fields) :
                    i \in DOMAIN helper_def.variants}
            \cup {[variant |-> "Unknown", fields |-> <<>>]}

\* Rust's evaluation of one match arm on the matched helper value.
EvalArm(arm, helper) ==
    LET n == Len(arm.pat.binds)
        \* the pattern binds each name to a member of the helper's payload
        bound(x) ==
            IF arm.pat.kind = "Named" THEN helper.fields[x]
            ELSE helper.fields[Index((CHOOSE k \in 1..n : arm.pat.binds[k] = x) - 1)]
    IN  [ty |-> arm.body.path[1], variant |-> arm.body.path[2],
         fields |->
            CASE arm.body.kind = "Named" ->
                    [m \in Range(arm.body.binds) |-> bound(m)]
              [] arm.body.kind = "Unnamed" ->
                    [m \in {Index(j) : j \in 0..(Len(arm.body.binds) - 1)} |->
                        bound(arm.body.binds[
                            (CHOOSE j \in 0..(Len(arm.body.binds) - 1) : Index(j) = m) + 1])]
              [] OTHER -> <<>>]

\* Rust's evaluation of the emitted expression with `helper` in scope.
Eval(expr, helper) ==
    CASE expr.form = "Struct" ->
            [ty |-> expr.path[1], variant |-> None,
             fields |->
                [m \in {expr.inits[i].member : i \in DOMAIN expr.inits} |->
                    helper.fields[expr.inits[CHOOSE i \in DOMAIN expr.inits :
                                                expr.inits[i].member = m].from]]]
      [] expr.form = "Call" ->
            [ty |-> expr.path[1], variant |-> None,
             fields |->
                [m \in {Index(j) : j \in 0..(Len(expr.inits) - 1)} |->
                    helper.fields[expr.inits[
                        (CHOOSE j \in 0..(Len(expr.inits) - 1) : Index(j) = m) + 1].from]]]
      [] expr.form = "Path" ->
            [ty |-> expr.path[1], variant |-> None, fields |-> <<>>]
      [] OTHER ->
            LET i == CHOOSE k \in DOMAIN expr.arms :
                        expr.arms[k].pat.path = <<helper.ty, helper.variant>>
            IN  EvalArm(expr.arms[i], helper)

\* The user's Validate::validate: a value is invalid when one of its fields
\* holds a rejected value; the error names the least rejected value found.
validate(r, x) ==
    LET bad == {x.fields[k] : k \in DOMAIN x.fields} \cap r
    IN  IF bad = {}
        THEN [tag |-> "Ok", err |-> NoValidateErr]
        ELSE [tag |-> "Err", err |-> [code |-> CHOOSE b \in bad : \A c \in bad : b <= c]]

\* Mutation of validated: the verdict of validate is discarded.
validated_unchecked(r, x) == [tag |-> "Ok", value |-> x, err |-> NoValidateErr]

\* self.validate().map(|_| self)
validated(r, x) ==
    LET res == validate(r, x)
    IN  IF res.tag = "Ok"
        THEN [tag |-> "Ok", value |-> x, err |-> NoValidateErr]
        ELSE [tag |-> "Err", value |-> NoValue, err |-> res.err]

\* Display of the user's error type.
Display(e) == "rejected " \o ToString(e.code)

\* Mutation of custom: the description of the error is dropped.
custom_fixed(e) == [msg |-> "invalid value"]

\* serde::de::Error::custom(msg): an error of the deserializer's own type.
custom(e) == [msg |-> Display(e)]

\* Mutation of map_err_custom: a validation failure is swallowed.
map_err_custom_lenient(res) == Ok(res.value)

\* .map_err(serde::de::Error::custom)
map_err_custom(res) ==
    IF res.tag = "Ok" THEN Ok(res.value) ELSE Err(custom(res.err))

\* Mutation of Try: the decode error is wrapped in a new message.
TryWrapped(res) == Err([msg |-> "cannot decode: " \o res.err.msg])

\* The `?` operator on the helper's result: Err(e) returns Err(From::from(e)),
\* and From is reflexive on the deserializer's error type.
Try(res) == Err(res.err)

Rules == SUBSET Val

(***************************************************************************)
(* State: the declaration handed to the macro, the user's validation rule, *)
(* the expansion, the frames of the running deserialize calls, and the     *)
(* names of the other items of the module the declaration stands in.       *)
(***************************************************************************)
Fresh ==
    [pc |-> "Start", input |-> NoDoc, helper |-> NoValue, instance |-> NoValue,
     vres |-> [tag |-> "", value |-> NoValue, err |-> NoValidateErr],
     result |-> [tag |-> "", value |-> NoValue, err |-> NoErr],
     decodes |-> 0, converts |-> 0, validates |-> 0]

\* Macro expansion over every parseable declaration.
InitGen ==
    /\ decl \in AllDecls
    /\ rule \in {{}}
    /\ gen = Pending
    /\ inv = [i \in 1..1 |-> Fresh]
    /\ scope = {}

\* One deserialize call on the expansion of a declaration that compiles.
Init ==
    /\ decl \in RunDecls
    /\ rule \in Rules
    /\ gen = Pending
    /\ inv = [i \in 1..1 |-> Fresh]
    /\ scope = {}

\* Declarations small enough to run NInv calls side by side.
ConcDecls ==
    {d \in RunDecls :
        /\ d.generics = NoGenerics
        /\ Len(d.data.fields.list) <= 1
        /\ Len(d.data.variants) <= 1}

\* One deserialize call under a rule that accepts some values and rejects
\* others, so that both exits of validation are taken.
InitFair ==
    /\ decl \in RunDecls
    /\ rule \in {{0}}
    /\ gen = Pending
    /\ inv = [i \in 1..1 |-> Fresh]
    /\ scope = {}

\* NInv deserialize calls on the expansion of one declaration.
InitConc ==
    /\ decl \in ConcDecls
    /\ rule \in Rules
    /\ gen = Pending
    /\ inv = [i \in 1..NInv |-> Fresh]
    /\ scope = {}

\* The names a module may give its types.
ModuleTypeNames == {"Foo", "Bar"}

\* The names of the other items the user declares in the module of the
\* annotated type: any identifiers, the ones spelled like HelperName of a
\* type name included.
UserNames == ModuleTypeNames \cup {HelperName(n) : n \in ModuleTypeNames}

ModuleDecls ==
    {d \in [ident : ModuleTypeNames, generics : {NoGenerics, TestGenerics},
            data : Datas] : Compiles(d)}

\* Macro expansion on a type declared in a module beside other items of the
\* user; the module compiles before expansion, so no other item has the
\* name of the annotated type.
InitScope ==
    /\ decl \in ModuleDecls
    /\ rule \in {{}}
    /\ gen = Pending
    /\ inv = [i \in 1..1 |-> Fresh]
    /\ scope \in SUBSET (UserNames \ {decl.ident})

\* #[validate_deser] applied to decl.
validate_deser ==
    /\ gen.status = "pending"
    /\ gen' = Expansion(decl)
    /\ UNCHANGED <<decl, rule, inv, scope>>

\* Mutation of Frame: the locals live in one slot shared by all invocations.
FrameShared(i) == 1

\* The frame whose locals a step of invocation i reads and writes.
Frame(i) == i

\* deserialize(deserializer) is entered and calls the helper's decoder.
Call(i) ==
    /\ gen.status = "expanded"
    /\ inv[i].pc = "Start"
    /\ \E doc \in Docs(gen.helper_def) :
          inv' = [inv EXCEPT ![i].pc = "Decoding", ![i].input = doc,
                             ![i].decodes = @ + 1]
    /\ UNCHANGED <<decl, rule, gen, scope>>

PcAfterDecode(res) == IF res.tag = "Err" THEN "DecodeFailed" ELSE "Decoded"

\* let helper = #helper_name::deserialize(deserializer)?;
DecodeReturn(i) ==
    /\ inv[i].pc = "Decoding"
    /\ LET res == HelperDeserialize(gen.helper_def, inv[Frame(i)].input)
       IN  inv' = [inv EXCEPT
                    ![i].pc = PcAfterDecode(res),
                    ![i].helper = IF res.tag = "Ok" THEN res.value ELSE @,
                    ![i].result = IF res.tag = "Err" THEN Try(res) ELSE @]
    /\ UNCHANGED <<decl, rule, gen, scope>>

\* let instance = #init_from_helper;  (entered)
ConvertBegin(i) ==
    /\ inv[i].pc = "Decoded"
    /\ inv' = [inv EXCEPT ![i].pc = "Converting", ![i].converts = @ + 1]
    /\ UNCHANGED <<decl, rule, gen, scope>>

\* let instance = #init_from_helper;  (bound)
ConvertEnd(i) ==
    /\ inv[i].pc = "Converting"
    /\ inv' = [inv EXCEPT
                ![i].pc = "Converted",
                ![i].instance = Eval(gen.init_from_helper, inv[Frame(i)].helper)]
    /\ UNCHANGED <<decl, rule, gen, scope>>

\* instance.validated() is called; it calls self.validate().
ValidatedCall(i) ==
    /\ inv[i].pc = "Converted"
    /\ inv' = [inv EXCEPT ![i].pc = "Validating", ![i].validates = @ + 1]
    /\ UNCHANGED <<decl, rule, gen, scope>>

\* Mutation of PcAfterValidated: a failed validation is tried again.
PcAfterValidatedRetry(res) == IF res.tag = "Ok" THEN "Validated" ELSE "Converted"

PcAfterValidated(res) == IF res.tag = "Ok" THEN "Validated" ELSE "ValidationFailed"

\* instance.validated().map_err(serde::de::Error::custom) returns.
ValidatedReturn(i) ==
    /\ inv[i].pc = "Validating"
    /\ LET res == validated(rule, inv[Frame(i)].instance)
       IN  inv' = [inv EXCEPT
                    ![i].pc = PcAfterValidated(res),
                    ![i].vres = res,
                    ![i].result = map_err_custom(res)]
    /\ UNCHANGED <<decl, rule, gen, scope>>

Step(i) ==
    \/ DecodeReturn(i)
    \/ ConvertBegin(i)
    \/ ConvertEnd(i)
    \/ ValidatedCall(i)
    \/ ValidatedReturn(i)

NextGen == validate_deser

Next ==
    \/ validate_deser
    \/ \E i \in DOMAIN inv : Call(i)
    \/ \E i \in DOMAIN inv : DecodeReturn(i)
    \/ \E i \in DOMAIN inv : ConvertBegin(i)
    \/ \E i \in DOMAIN inv : ConvertEnd(i)
    \/ \E i \in DOMAIN inv : ValidatedCall(i)
    \/ \E i \in DOMAIN inv : ValidatedReturn(i)

SpecGen == InitGen /\ [][NextGen]_vars

Spec == Init /\ [][Next]_vars

SpecConc == InitConc /\ [][Next]_vars

\* Macro expansion inside a module with other items.
SpecScope == InitScope /\ [][NextGen]_vars

\* A call of deserialize that has been entered runs to its return: the body
\* is straight-line synchronous code.
FairSpec == InitFair /\ [][Next]_vars /\ \A i \in 1..1 : WF_vars(Step(i))

(***************************************************************************)
(* Properties.                                                             *)
(***************************************************************************)
Terminal == {"DecodeFailed", "ValidationFailed", "Validated"}

AfterValidation == {"ValidationFailed", "Validated"}

Frames == {inv[i] : i \in DOMAIN inv}

\* C1: deserialize never returns a success value whose validity check fails:
\* a returned Ok value passes validate, and when validate rejects the
\* converted value the result is an error that carries no value.
C1_NoInvalidSuccess ==
    \A f \in Frames :
        /\ f.result.tag = "Ok" => validate(rule, f.result.value).tag = "Ok"
        /\ (f.pc \in AfterValidation /\ validate(rule, f.instance).tag = "Err") =>
                /\ f.result.tag = "Err"
                /\ f.result.value = NoValue
                /\ f.result.value # f.instance

\* C1 witness: a decoded and converted value was rejected by validate.
C1_Witness ==
    \E f \in Frames :
        /\ f.pc = "ValidationFailed"
        /\ f.instance.ty = decl.ident
        /\ validate(rule, f.instance).tag = "Err"

\* C2: when the helper is decoded and the converted value passes validate,
\* deserialize returns Ok with a value of the real type that has the variant
\* of the staging value and, member by member, its field values (which are
\* those of the document).
C2_AcceptedEqualsStaged ==
    \A f \in Frames :
        (f.pc \in AfterValidation /\ validate(rule, f.instance).tag = "Ok") =>
            /\ f.pc = "Validated"
            /\ f.result.tag = "Ok"
            /\ f.helper.ty = gen.helper_def.name
            /\ f.result.value.ty = decl.ident
            /\ f.result.value.variant = f.helper.variant
            /\ DOMAIN f.result.value.fields = DOMAIN f.helper.fields
            /\ \A k \in DOMAIN f.helper.fields :
                    f.result.value.fields[k] = f.helper.fields[k]
            /\ f.helper.variant = f.input.variant
            /\ f.helper.fields = f.input.fields

\* C2 witness: a named struct with two different field values was accepted.
C2_Witness ==
    \E f \in Frames :
        /\ f.pc = "Validated"
        /\ decl.data.kind = "Struct" /\ decl.data.fields.kind = "Named"
        /\ \E k, l \in DOMAIN f.helper.fields : f.helper.fields[k] # f.helper.fields[l]

\* C3: when decoding succeeds and validate returns an error e, deserialize
\* returns Err of the deserializer's error type built from the description of
\* e; the failure is neither dropped nor turned into a success.
C3_ValidationErrorBecomesDecodeError ==
    \A f \in Frames :
        (f.pc \in AfterValidation /\ validate(rule, f.instance).tag = "Err") =>
            /\ f.pc = "ValidationFailed"
            /\ f.result.tag = "Err"
            /\ DOMAIN f.result.err = {"msg"}
            /\ f.result.err.msg = Display(validate(rule, f.instance).err)
            /\ f.result.err.msg # NoErr.msg

\* C3 witness: a validation failure was reported through the decode error.
C3_Witness ==
    \E f \in Frames :
        /\ f.pc = "ValidationFailed"
        /\ f.helper.ty = gen.helper_def.name
        /\ f.result.err.msg = "rejected 0"

\* C4: when the helper's decoder fails with d (also when a field of a type
\* parameter fails to decode), deserialize returns exactly Err(d), and neither
\* the conversion nor validated has been entered.
C4_DecodeErrorUnchanged ==
    \A f \in Frames :
        LET res == HelperDeserialize(gen.helper_def, f.input)
        IN  /\ f.pc = "DecodeFailed" =>
                    /\ res.tag = "Err"
                    /\ f.result.tag = "Err"
                    /\ f.result.err = res.err
                    /\ f.result.value = NoValue
                    /\ f.converts = 0 /\ f.validates = 0
                    /\ f.helper = NoValue /\ f.instance = NoValue
            /\ (f.pc \notin {"Start", "Decoding"} /\ res.tag = "Err") =>
                    f.pc = "DecodeFailed"

\* C4 witness: decoding failed in a field whose type is the type parameter T.
C4_Witness ==
    \E f \in Frames :
        /\ f.pc = "DecodeFailed"
        /\ f.result.err.msg = "invalid type, expected T"

LinearEdges ==
    { <<"Start", "Decoding">>,
      <<"Decoding", "DecodeFailed">>, <<"Decoding", "Decoded">>,
      <<"Decoded", "Converting">>, <<"Converting", "Converted">>,
      <<"Converted", "Validating">>,
      <<"Validating", "ValidationFailed">>, <<"Validating", "Validated">> }

\* One call's counters of capability invocations agree with its position.
CallsMatchPosition(f) ==
    /\ f.decodes = IF f.pc = "Start" THEN 0 ELSE 1
    /\ f.converts =
        IF f.pc \in {"Converting", "Converted", "Validating"} \cup AfterValidation
        THEN 1 ELSE 0
    /\ f.validates = IF f.pc \in {"Validating"} \cup AfterValidation THEN 1 ELSE 0

\* C5: every call of deserialize is one linear pass Start, Decoding, then
\* DecodeFailed or Decoded, Converting, Converted, Validating, then
\* ValidationFailed or Validated: the decoder is invoked exactly once,
\* conversion is entered only after a successful decode, validated at most
\* once and only after conversion, no position is entered again, and a call
\* that has been entered ends in one of the three terminal positions.
C5_LinearPass ==
    /\ [](\A f \in Frames : CallsMatchPosition(f))
    /\ [][\A i \in DOMAIN inv :
            inv'[i] # inv[i] => <<inv[i].pc, inv'[i].pc>> \in LinearEdges]_vars
    /\ \A i \in 1..1 : (inv[i].pc = "Decoding") ~> (inv[i].pc \in Terminal)

\* C5 witness: a call went all the way to a successful return, each
\* capability invoked once.
C5_Witness ==
    \E f \in Frames :
        f.pc = "Validated" /\ f.decodes = 1 /\ f.converts = 1 /\ f.validates = 1

\* C6: validated(x) calls validate once and returns Ok(x), x unchanged, if
\* and only if validate(x) is Ok; otherwise it returns Err with the very
\* error validate returned.
C6_ValidatedAgreesWithValidate ==
    \A f \in Frames :
        f.pc \in AfterValidation =>
            LET v == validate(rule, f.instance)
            IN  /\ f.validates = 1
                /\ f.vres.tag = v.tag
                /\ v.tag = "Ok" => f.vres.value = f.instance
                /\ v.tag = "Err" => (f.vres.err = v.err /\ f.vres.value = NoValue)

\* C6 witness: validated has returned an error for a value with fields.
C6_Witness ==
    \E f \in Frames :
        /\ f.pc \in AfterValidation
        /\ f.vres.tag = "Err"
        /\ f.vres.err.code \in rule

\* C7: for a positional struct of N >= 0 fields the conversion has exactly N
\* bindings, the k-th reading staging position k - 1, and decoding
\* [x0, ..., xN-1] gives a value whose field i is xi.
C7_PositionalBijection ==
    (gen.status = "expanded" /\ decl.data.kind = "Struct"
        /\ decl.data.fields.kind = "Unnamed") =>
        LET n == Len(decl.data.fields.list)
            b == gen.init_from_helper.inits
        IN  /\ gen.init_from_helper.form = "Call"
            /\ Len(b) = n
            /\ \A k \in 1..n : b[k].from = ToString(k - 1)
            /\ \A f \in Frames :
                    f.pc = "Validated" =>
                        /\ DOMAIN f.result.value.fields = {ToString(j) : j \in 0..(n - 1)}
                        /\ \A j \in 0..(n - 1) :
                                f.result.value.fields[ToString(j)] =
                                    f.input.fields[ToString(j)]

\* C7 witness: a positional struct of at least two fields, the first two of
\* different values, was decoded and accepted.
C7_Witness ==
    /\ decl.data.kind = "Struct" /\ decl.data.fields.kind = "Unnamed"
    /\ Len(decl.data.fields.list) >= 2
    /\ \E f \in Frames :
            /\ f.pc = "Validated"
            /\ f.input.fields["0"] # f.input.fields["1"]

Count(p, s) == Cardinality({i \in DOMAIN s : s[i] = p})

Decodable(ident) == [lhs |-> ident, bound |-> "serde::Deserialize<'__de>"]

\* C8 as claimed: the bound set holds every original where-predicate, exactly
\* one decodable predicate per type parameter, none for lifetime or constant
\* parameters, and no predicate twice.
C8_BoundSetDeduplicated ==
    gen.status = "expanded" =>
        LET out == gen.impl.where_clause
            ps == decl.generics.params
        IN  /\ Range(decl.generics.where_clause.predicates) \subseteq Range(out)
            /\ \A i \in DOMAIN ps :
                    Count(Decodable(ps[i].ident), out) =
                        IF ps[i].kind = "Type" THEN 1 ELSE 0
            /\ \A p \in Range(out) : Count(p, out) = 1

\* C8 as amended: the bound list is the original where-predicates in declared
\* order, each as many times as the declaration writes it, followed by exactly
\* one appended decodable predicate per type parameter and none for lifetime
\* or constant parameters; it is not deduplicated.
C8_BoundListKeepsRepeats ==
    gen.status = "expanded" =>
        LET out == gen.impl.where_clause
            ps == decl.generics.params
            orig == decl.generics.where_clause.predicates
            added == SubSeq(out, Len(orig) + 1, Len(out))
        IN  /\ Len(out) >= Len(orig)
            /\ \A i \in 1..Len(orig) : out[i] = orig[i]
            /\ \A p \in Range(orig) : Count(p, out) = Count(p, orig)
            /\ \A i \in DOMAIN ps :
                    Count(Decodable(ps[i].ident), added) =
                        IF ps[i].kind = "Type" THEN 1 ELSE 0
            /\ \A q \in Range(added) :
                    \E i \in DOMAIN ps : ps[i].kind = "Type" /\ q = Decodable(ps[i].ident)

\* C8 witness: a where clause that repeats a predicate, on a declaration with
\* a type parameter and a parameter that is not a type, was expanded.
C8_Witness ==
    /\ gen.status = "expanded"
    /\ \E i, j \in DOMAIN decl.generics.where_clause.predicates :
            /\ i # j
            /\ decl.generics.where_clause.predicates[i]
                = decl.generics.where_clause.predicates[j]
    /\ \E i, j \in DOMAIN decl.generics.params :
            decl.generics.params[i].kind = "Type" /\ decl.generics.params[j].kind # "Type"
    /\ Len(gen.impl.where_clause) > Len(decl.generics.where_clause.predicates)

\* C9: on a union the expansion fails with a diagnostic that names the
\* declaration, and emits neither the helper nor the impl.
C9_UnionDiagnosticNamesDecl ==
    (decl.data.kind = "Union" /\ gen.status # "pending") =>
        /\ gen.status # "expanded"
        /\ gen.helper_def = NoItem /\ gen.impl = NoImpl
        /\ decl.ident \in Range(gen.message)

\* What one call returns for a document when it runs alone.
Alone(doc) ==
    LET res == HelperDeserialize(gen.helper_def, doc)
    IN  IF res.tag = "Err" THEN Try(res)
        ELSE map_err_custom(validated(rule, Eval(gen.init_from_helper, res.value)))

\* C10: with NInv calls interleaved step by step, each call's locals and
\* outcome are those of the call running alone on its own document, and a
\* step changes the frame of one call only.
C10_CallsIndependent ==
    /\ [](\A i \in DOMAIN inv :
            LET f == inv[i]
                res == HelperDeserialize(gen.helper_def, f.input)
            IN  /\ f.pc \in Terminal => f.result = Alone(f.input)
                /\ f.pc \notin Terminal => f.result.tag = ""
                /\ f.helper # NoValue => f.helper = res.value
                /\ f.instance # NoValue =>
                        f.instance = Eval(gen.init_from_helper, res.value))
    /\ [][\A i, j \in DOMAIN inv :
            (i # j /\ inv'[i] # inv[i]) => inv'[j] = inv[j]]_vars

\* C10 witness: two calls on different documents have both returned, one
\* with a value and one with an error.
C10_Witness ==
    \E i, j \in DOMAIN inv :
        /\ inv[i].pc = "Validated" /\ inv[j].pc \in {"DecodeFailed", "ValidationFailed"}
        /\ inv[i].input # inv[j].input

\* C11: for an enum with any list of variants, the empty list included, the
\* conversion is a match with exactly one arm per declared variant, in
\* declared order, and no catch-all arm; the i-th arm matches the helper's
\* variant of the i-th name, binds its payload by the rule of its kind (field
\* names, one placeholder per position, nothing) and rebuilds the real
\* variant of that name from the same bindings in the same order.
C11_OneArmPerVariant ==
    (gen.status = "expanded" /\ decl.data.kind = "Enum") =>
        LET vs == decl.data.variants
            arms == gen.init_from_helper.arms
        IN  /\ gen.init_from_helper.form = "Match"
            /\ Len(arms) = Len(vs)
            /\ \A i \in 1..Len(vs) :
                    LET fl == vs[i].fields.list
                        arm == arms[i]
                    IN  /\ arm.pat.path = <<gen.helper_def.name, vs[i].ident>>
                        /\ arm.body.path = <<decl.ident, vs[i].ident>>
                        /\ arm.pat.kind = vs[i].fields.kind
                        /\ arm.body.kind = vs[i].fields.kind
                        /\ arm.body.binds = arm.pat.binds
                        /\ Len(arm.pat.binds) = Len(fl)
                        /\ vs[i].fields.kind = "Named" =>
                                \A k \in 1..Len(fl) : arm.pat.binds[k] = fl[k].ident
                        /\ \A k, l \in 1..Len(fl) :
                                arm.pat.binds[k] = arm.pat.binds[l] => k = l

\* C11 witness: an enum of two variants of different kinds, one of them with
\* two positional fields, was expanded.
C11_Witness ==
    /\ gen.status = "expanded" /\ decl.data.kind = "Enum"
    /\ Len(gen.init_from_helper.arms) >= 2
    /\ gen.init_from_helper.arms[1].pat.kind # gen.init_from_helper.arms[2].pat.kind
    /\ \E i \in DOMAIN gen.init_from_helper.arms :
            /\ gen.init_from_helper.arms[i].pat.kind = "Unnamed"
            /\ Len(gen.init_from_helper.arms[i].pat.binds) = 2

\* The shape kind of a declaration: named record, positional record, unit or
\* tagged union.
ShapeKind(d) == IF d.data.kind = "Enum" THEN "Enum" ELSE d.data.fields.kind

\* C12 as stated: for each of the four shape kinds the helper declaration
\* has the same ordered generic parameter list and the same where predicates
\* as the original declaration.
C12_HelperKeepsGenerics ==
    gen.status = "expanded" =>
        /\ gen.helper_def.generic_params = decl.generics.params
        /\ gen.helper_def.where_clause = decl.generics.where_clause

\* C12 amended: the helper of a named record, of a positional record and of a
\* tagged union has the same ordered generic parameter list and the same
\* where predicates as the original declaration; the helper of a unit
\* declaration has no generic parameters and no where clause, whatever the
\* original declares.
C12_NonUnitHelperKeepsGenerics ==
    gen.status = "expanded" =>
        IF ShapeKind(decl) = "Unit"
        THEN /\ gen.helper_def.generic_params = <<>>
             /\ gen.helper_def.where_clause = NoWhere
        ELSE /\ gen.helper_def.generic_params = decl.generics.params
             /\ gen.helper_def.where_clause = decl.generics.where_clause

\* C12 witness: a named record with two generic parameters and two where
\* predicates was expanded, and its helper has them all.
C12_Witness ==
    /\ gen.status = "expanded"
    /\ ShapeKind(decl) = "Named"
    /\ Len(decl.generics.params) = 2
    /\ Len(decl.generics.where_clause.predicates) = 2
    /\ Len(gen.helper_def.generic_params) = 2
    /\ Len(gen.helper_def.where_clause.predicates) = 2

\* C13: the helper's name never collides with a name visible in the module:
\* it differs from the annotated type's name, another type name gives
\* another helper name, and it is the name of no item the user declares in
\* the module.
C13_HelperNameCollisionFree ==
    gen.status = "expanded" =>
        /\ gen.helper_def.name # decl.ident
        /\ \A n \in ModuleTypeNames :
                n # decl.ident => HelperName(n) # gen.helper_def.name
        /\ gen.helper_def.name \notin scope

\* C14: the helper declaration has the shape of the original: a struct's
\* helper is a struct of the same kind with the same fields (names and types
\* for a named record, types for a positional one) in declared order; an
\* enum's helper is an enum with as many variants, the i-th having the name,
\* the payload kind and the payload fields of the i-th declared variant.
C14_HelperMirrorsShape ==
    gen.status = "expanded" =>
        IF decl.data.kind = "Struct"
        THEN /\ gen.helper_def.kw = "struct"
             /\ gen.helper_def.fields.kind = decl.data.fields.kind
             /\ gen.helper_def.fields.list = decl.data.fields.list
             /\ gen.helper_def.variants = <<>>
        ELSE /\ gen.helper_def.kw = "enum"
             /\ Len(gen.helper_def.variants) = Len(decl.data.variants)
             /\ \A i \in 1..Len(decl.data.variants) :
                    /\ gen.helper_def.variants[i].ident = decl.data.variants[i].ident
                    /\ gen.helper_def.variants[i].fields.kind
                            = decl.data.variants[i].fields.kind
                    /\ gen.helper_def.variants[i].fields.list
                            = decl.data.variants[i].fields.list

\* C14 witness: an enum whose first variant has two positional fields and
\* whose second variant has a named field was expanded, its variants not in
\* alphabetical order.
C14_Witness ==
    /\ gen.status = "expanded" /\ decl.data.kind = "Enum"
    /\ Len(gen.helper_def.variants) = 2
    /\ gen.helper_def.variants[1].ident = "Str"
    /\ gen.helper_def.variants[2].ident = "Int"
    /\ gen.helper_def.variants[1].fields.kind = "Unnamed"
    /\ Len(gen.helper_def.variants[1].fields.list) = 2
    /\ gen.helper_def.variants[2].fields.kind = "Named"

====
